---- MODULE Spec2Model ----
(***************************************************************************)
(* Model of app.py (Monitor de Eficiencia): one render pass of main(),     *)
(* the two loaders and the six processing functions.                       *)
(*                                                                         *)
(* Units.  tae_creche_capped is held in hundredths of a percentage point   *)
(* (4996 is 49.96).  A float is a record [k, n, d]: k = "num" is the       *)
(* rational n/d (d > 0), k = "nan", "inf", "ninf" are the IEEE specials    *)
(* numpy produces for x/0.  A string is a sequence of one-character        *)
(* strings.                                                                *)
(***************************************************************************)
EXTENDS Integers, Sequences, FiniteSets, TLC

VARIABLES csvFile, gjFile, pc, df, geojson, errors, invoked,
          kpis, mapFig, eventFig, scatterFig, top5Fig, tableDf

vars == <<csvFile, gjFile, pc, df, geojson, errors, invoked,
          kpis, mapFig, eventFig, scatterFig, top5Fig, tableDf>>

----------------------------------------------------------------------------
(* Bounds of the input families. *)
MaxFeatures == 2
MaxRows == 3
MaxJoinMuni == 3
MaxTopMuni == 6
MaxTableMuni == 2

(* Program constants. *)
YEAR_A == 2007
YEAR_B == 2019
ORIGIN == 2012
TARGET == 50
TOPN == 5
KEYLEN == 6

MAIOR == "Maior Dinamismo Economico"
MENOR == "Menor Dinamismo Economico"

Columns == {"ano", "id_municipio_6", "nome_municipio", "grupo_renda",
            "tae_creche_capped", "Total_mulheres", "log_emp_mulher"}

----------------------------------------------------------------------------
(* Floats. *)
Num(n, d) == [k |-> "num", n |-> n, d |-> d]
NaN == [k |-> "nan", n |-> 0, d |-> 1]
PosInf == [k |-> "inf", n |-> 0, d |-> 1]
NegInf == [k |-> "ninf", n |-> 0, d |-> 1]

IsNaN(a) == a.k = "nan"

(* a < b on floats; false whenever either side is NaN. *)
FLt(a, b) ==
    IF IsNaN(a) \/ IsNaN(b) THEN FALSE
    ELSE IF a.k = "ninf" THEN b.k # "ninf"
    ELSE IF a.k = "inf" THEN FALSE
    ELSE IF b.k = "ninf" THEN FALSE
    ELSE IF b.k = "inf" THEN TRUE
    ELSE a.n * b.d < b.n * a.d

FEq(a, b) ==
    IF IsNaN(a) \/ IsNaN(b) THEN FALSE
    ELSE IF a.k # "num" \/ b.k # "num" THEN a.k = b.k
    ELSE a.n * b.d = b.n * a.d

FGe(a, b) == FLt(b, a) \/ FEq(a, b)
FLe(a, b) == FLt(a, b) \/ FEq(a, b)

(* a - b on floats. *)
FSub(a, b) ==
    IF IsNaN(a) \/ IsNaN(b) THEN NaN
    ELSE IF a.k = "num" /\ b.k = "num" THEN Num(a.n * b.d - b.n * a.d, a.d * b.d)
    ELSE IF a.k = "num" THEN (IF b.k = "inf" THEN NegInf ELSE PosInf)
    ELSE IF b.k = "num" THEN a
    ELSE IF a.k = b.k THEN NaN
    ELSE a

(* Nearest integer to a/b (b > 0), ties to even: numpy's rint. *)
RoundHalfEven(a, b) ==
    LET q == a \div b
        r == a % b
    IN  IF 2 * r < b THEN q
        ELSE IF 2 * r > b THEN q + 1
        ELSE IF q % 2 = 0 THEN q ELSE q + 1

(* round(x, 1): a float in tenths; the specials pass through. *)
Round1(x) ==
    IF x.k = "num" THEN Num(RoundHalfEven(10 * x.n, x.d), 10) ELSE x

(* Series.mean() of a sequence of integers: NaN when it is empty. *)
RECURSIVE SumSeq(_)
SumSeq(s) == IF s = <<>> THEN 0 ELSE Head(s) + SumSeq(Tail(s))

Mean(s, unit) == IF s = <<>> THEN NaN ELSE Num(SumSeq(s), Len(s) * unit)

----------------------------------------------------------------------------
(* Strings. *)
DigitChar == <<"0", "1", "2", "3", "4", "5", "6", "7", "8", "9">>

(* str(n) of a non-negative integer. *)
RECURSIVE Str(_)
Str(n) == IF n < 10 THEN <<DigitChar[n + 1]>>
          ELSE Str(n \div 10) \o <<DigitChar[(n % 10) + 1]>>

(* s[:k] *)
Prefix(s, k) == SubSeq(s, 1, IF Len(s) < k THEN Len(s) ELSE k)

----------------------------------------------------------------------------
(* Data loading. *)
NoneDf == [kind |-> "None", cols |-> {}, rows |-> <<>>]
NoneGeo == [kind |-> "None", features |-> <<>>]

(* load_data: the DataFrame, or None with the error shown by st.error. *)
load_data(file) ==
    IF file.kind = "missing"
    THEN [ret |-> NoneDf, err |-> {"csv_not_found"}]
    ELSE IF file.kind = "malformed"
    THEN [ret |-> NoneDf, err |-> {"csv_error"}]
    ELSE [ret |-> [kind |-> "DataFrame", cols |-> file.cols, rows |-> file.rows],
          err |-> {}]

(* str(feature['properties']['id']): the id is a JSON number or a JSON string. *)
PyStr(v) == IF v.t = "int" THEN Str(v.v) ELSE v.s

NormalizeFeatureNoSlice(f) ==
    IF f.hasPropId
    THEN [f EXCEPT !.hasId = TRUE, !.id = PyStr(f.propId)]
    ELSE f

(* The body of the loop over geojson['features']. *)
NormalizeFeature(f) ==
    IF f.hasPropId
    THEN [f EXCEPT !.hasId = TRUE, !.id = Prefix(PyStr(f.propId), KEYLEN)]
    ELSE f

(* load_geojson: a missing 'features' or 'properties' key raises inside the
   try block, and the except branch returns None. *)
load_geojson(file) ==
    IF file.kind = "missing"
    THEN [ret |-> NoneGeo, err |-> {"geojson_not_found"}]
    ELSE IF file.kind = "malformed"
    THEN [ret |-> NoneGeo, err |-> {"geojson_error"}]
    ELSE IF ~file.hasFeatures
    THEN [ret |-> NoneGeo, err |-> {"geojson_error"}]
    ELSE IF \E i \in 1..Len(file.features) : ~file.features[i].hasProps
    THEN [ret |-> NoneGeo, err |-> {"geojson_error"}]
    ELSE [ret |-> [kind |-> "dict",
                   features |-> [i \in 1..Len(file.features) |->
                                    NormalizeFeature(file.features[i])]],
          err |-> {}]

----------------------------------------------------------------------------
(* Processing functions.  Each returns ok = FALSE where the Python raises
   (a KeyError on a column, a group label or the origin year). *)

(* df[df['ano'] == year] *)
YearSlice(d, year) ==
    LET Test(r) == r.ano = year IN SelectSeq(d.rows, Test)

(* The index of df[...].set_index('id_municipio_6'). *)
IndexOf(slice) == [i \in 1..Len(slice) |-> slice[i].id_municipio_6]

InSeq(x, s) == \E i \in 1..Len(s) : s[i] = x

(* left.intersection(right): the unique labels of left that are in right,
   in the order of left. *)
RECURSIVE Intersection(_, _)
Intersection(left, right) ==
    IF left = <<>> THEN <<>>
    ELSE LET rest == Intersection(SubSeq(left, 1, Len(left) - 1), right)
             x == left[Len(left)]
         IN  IF InSeq(x, right) /\ ~InSeq(x, rest) THEN Append(rest, x) ELSE rest

CommonWrongBaseline(d) ==
    Intersection(IndexOf(YearSlice(d, YEAR_B)), IndexOf(YearSlice(d, ORIGIN)))

(* common = df_2019.index.intersection(df_2007.index) *)
Common(d) == Intersection(IndexOf(YearSlice(d, YEAR_B)), IndexOf(YearSlice(d, YEAR_A)))

(* slice.loc[idx]: the row of the slice labelled idx. *)
Loc(slice, idx) == slice[CHOOSE i \in 1..Len(slice) : slice[i].id_municipio_6 = idx]

KpiBelowOrEqual(cov) == LET Test(c) == c <= TARGET * 100 IN Len(SelectSeq(cov, Test))

(* (... < 50).sum() *)
KpiBelow(cov) == LET Test(c) == c < TARGET * 100 IN Len(SelectSeq(cov, Test))

process_kpis(d) ==
    IF ~({"ano", "tae_creche_capped"} \subseteq d.cols)
    THEN [ok |-> FALSE, avg |-> NaN, below |-> 0]
    ELSE LET sel == YearSlice(d, YEAR_B)
             cov == [i \in 1..Len(sel) |-> sel[i].tae_creche_capped]
         IN  [ok |-> TRUE, avg |-> Mean(cov, 100), below |-> KpiBelow(cov)]

(* expansion = coverage[2019] - coverage[2007], in hundredths. *)
Expansion(d, idx) ==
    Loc(YearSlice(d, YEAR_B), idx).tae_creche_capped
      - Loc(YearSlice(d, YEAR_A), idx).tae_creche_capped

GrowthPctRatio(b, a) ==
    IF a = 0
    THEN (IF b = 0 THEN NaN ELSE IF b > 0 THEN PosInf ELSE NegInf)
    ELSE Num(b * 100, a)

(* ((b - a) / a) * 100 in float64: x/0 is inf, -inf or NaN, not an error. *)
GrowthPct(b, a) ==
    IF a = 0
    THEN (IF b - a = 0 THEN NaN ELSE IF b - a > 0 THEN PosInf ELSE NegInf)
    ELSE Num((b - a) * 100, a)

Growth(d, idx) ==
    GrowthPct(Loc(YearSlice(d, YEAR_B), idx).Total_mulheres,
              Loc(YearSlice(d, YEAR_A), idx).Total_mulheres)

(* get_map_fig: the Choropleth's locations, z and text. *)
get_map_fig(d, g) ==
    IF ~({"ano", "id_municipio_6", "tae_creche_capped", "nome_municipio"} \subseteq d.cols)
    THEN [ok |-> FALSE, locations |-> <<>>, z |-> <<>>, text |-> <<>>]
    ELSE LET common == Common(d)
         IN  [ok |-> TRUE,
              locations |-> [i \in 1..Len(common) |-> Str(common[i])],
              z |-> [i \in 1..Len(common) |-> Expansion(d, common[i])],
              text |-> [i \in 1..Len(common) |->
                          Loc(YearSlice(d, YEAR_B), common[i]).nome_municipio]]

(* Choropleth joins a location to the feature whose 'id' equals it. *)
FeatureJoins(f, location) == f.hasId /\ f.id = location

(* The sorted labels of an index built by groupby. *)
RECURSIVE SortedSeq(_)
SortedSeq(S) ==
    IF S = {} THEN <<>>
    ELSE LET m == CHOOSE x \in S : \A y \in S : x <= y
         IN  <<m>> \o SortedSeq(S \ {m})

(* groupby(['ano', 'grupo_renda'])['log_emp_mulher'].mean().unstack(): the
   cell of a (year, group) with no row is NaN. *)
GroupMean(d, year, group) ==
    LET Test(r) == r.ano = year /\ r.grupo_renda = group
        sel == SelectSeq(d.rows, Test)
    IN  Mean([i \in 1..Len(sel) |-> sel[i].log_emp_mulher], 1)

(* trend['gap'] *)
Gap(d, year) == FSub(GroupMean(d, year, MAIOR), GroupMean(d, year, MENOR))

NormalizedGapNoBase(d, year) == Gap(d, year)

(* trend['normalized_gap'] *)
NormalizedGap(d, year) == FSub(Gap(d, year), Gap(d, ORIGIN))

(* get_event_study_fig: x is trend.index, y is trend['normalized_gap'].
   A group label with no row at all is no column of trend, and a year with no
   row is no label of its index: both are KeyErrors. *)
get_event_study_fig(d) ==
    LET years == {d.rows[i].ano : i \in 1..Len(d.rows)}
        groups == {d.rows[i].grupo_renda : i \in 1..Len(d.rows)}
        x == SortedSeq(years)
    IN  IF ~({"ano", "grupo_renda", "log_emp_mulher"} \subseteq d.cols)
           \/ MAIOR \notin groups \/ MENOR \notin groups \/ ORIGIN \notin years
        THEN [ok |-> FALSE, x |-> <<>>, y |-> <<>>]
        ELSE [ok |-> TRUE, x |-> x,
              y |-> [i \in 1..Len(x) |-> NormalizedGap(d, x[i])]]

(* get_scatter_fig: the frame temp, one row per label of common. *)
get_scatter_fig(d) ==
    IF ~({"ano", "id_municipio_6", "tae_creche_capped", "Total_mulheres",
          "nome_municipio", "grupo_renda"} \subseteq d.cols)
    THEN [ok |-> FALSE, temp |-> <<>>]
    ELSE LET common == Common(d)
         IN  [ok |-> TRUE,
              temp |-> [i \in 1..Len(common) |->
                  [id |-> common[i],
                   x |-> Expansion(d, common[i]),
                   y |-> Growth(d, common[i]),
                   name |-> Loc(YearSlice(d, YEAR_B), common[i]).nome_municipio,
                   group |-> Loc(YearSlice(d, YEAR_B), common[i]).grupo_renda]]]

(* A stable sort on the growth column, as sort_values and nlargest do it; the
   sequences sorted here hold no NaN. *)
InsertAsc(t, r) ==
    LET k == Cardinality({i \in 1..Len(t) : FLe(t[i].growth, r.growth)})
    IN  SubSeq(t, 1, k) \o <<r>> \o SubSeq(t, k + 1, Len(t))

InsertDesc(t, r) ==
    LET k == Cardinality({i \in 1..Len(t) : FGe(t[i].growth, r.growth)})
    IN  SubSeq(t, 1, k) \o <<r>> \o SubSeq(t, k + 1, Len(t))

RECURSIVE SortAsc(_)
SortAsc(s) ==
    IF Len(s) = 0 THEN <<>>
    ELSE InsertAsc(SortAsc(SubSeq(s, 1, Len(s) - 1)), s[Len(s)])

RECURSIVE SortDesc(_)
SortDesc(s) ==
    IF Len(s) = 0 THEN <<>>
    ELSE InsertDesc(SortDesc(SubSeq(s, 1, Len(s) - 1)), s[Len(s)])

NotNaNRows(s) == LET Test(r) == ~IsNaN(r.growth) IN SelectSeq(s, Test)
NaNRows(s) == LET Test(r) == IsNaN(r.growth) IN SelectSeq(s, Test)

NSmallest(n, s) ==
    LET all == SortAsc(NotNaNRows(s)) \o NaNRows(s)
    IN  SubSeq(all, 1, IF Len(all) < n THEN Len(all) ELSE n)

(* temp.nlargest(n, 'growth'): the n largest of the rows that are not NaN,
   largest first, filled up to n with NaN rows when there are fewer. *)
NLargest(n, s) ==
    LET all == SortDesc(NotNaNRows(s)) \o NaNRows(s)
    IN  SubSeq(all, 1, IF Len(all) < n THEN Len(all) ELSE n)

(* .sort_values('growth', ascending=True): NaN rows last. *)
SortValuesAsc(s) == SortAsc(NotNaNRows(s)) \o NaNRows(s)

(* get_top5_fig: the frame temp and the rows top5 that are drawn. *)
get_top5_fig(d) ==
    IF ~({"ano", "id_municipio_6", "Total_mulheres", "nome_municipio"} \subseteq d.cols)
    THEN [ok |-> FALSE, temp |-> <<>>, top5 |-> <<>>]
    ELSE LET common == Common(d)
             temp == [i \in 1..Len(common) |->
                  [id |-> common[i],
                   growth |-> Growth(d, common[i]),
                   name |-> Loc(YearSlice(d, YEAR_B), common[i]).nome_municipio]]
         IN  [ok |-> TRUE, temp |-> temp,
              top5 |-> SortValuesAsc(NLargest(TOPN, temp))]

(* row['Meta'], from the rounded coverage held in tenths. *)
Meta(cobertura) == IF FGe(cobertura, Num(TARGET, 1)) THEN "Sim" ELSE "Nao"

(* One row of get_table_df. *)
TableRow(d, idx) ==
    LET r19 == Loc(YearSlice(d, YEAR_B), idx)
        cobertura == Round1(Num(r19.tae_creche_capped, 100))
    IN  [Municipio |-> r19.nome_municipio,
         Grupo |-> r19.grupo_renda,
         Cobertura |-> cobertura,
         Meta |-> Meta(cobertura),
         Expansao |-> Round1(Num(Expansion(d, idx), 100)),
         Crescimento |-> Round1(Growth(d, idx))]

(* get_table_df: the loop body reads its columns only when common has a label. *)
get_table_df(d) ==
    IF ~({"ano", "id_municipio_6"} \subseteq d.cols)
    THEN [ok |-> FALSE, data |-> <<>>]
    ELSE LET common == Common(d)
         IN  IF Len(common) > 0
                /\ ~({"nome_municipio", "grupo_renda", "tae_creche_capped",
                      "Total_mulheres"} \subseteq d.cols)
             THEN [ok |-> FALSE, data |-> <<>>]
             ELSE [ok |-> TRUE,
                   data |-> [i \in 1..Len(common) |-> TableRow(d, common[i])]]

----------------------------------------------------------------------------
(* Input files.  A table holds one row per (municipality, year); a feature
   of the boundary file holds a properties block, or none, and no join key
   of its own. *)
MuniId(i) == 230000 + 10 * i
MuniName(i) == <<"M">> \o Str(i)

Row(ano, i, grupo, cov, pop, emp) ==
    [ano |-> ano, id_municipio_6 |-> MuniId(i), nome_municipio |-> MuniName(i),
     grupo_renda |-> grupo, tae_creche_capped |-> cov, Total_mulheres |-> pop,
     log_emp_mulher |-> emp]

CsvMissing == [kind |-> "missing", cols |-> {}, rows |-> <<>>]
CsvMalformed == [kind |-> "malformed", cols |-> {}, rows |-> <<>>]
Csv(cols, rows) ==
    [kind |-> "csv", cols |-> cols,
     rows |-> [i \in 1..Len(rows) |-> [c \in cols |-> rows[i][c]]]]

SeqsUpTo(S, n) == UNION {[1..k -> S] : k \in 0..n}

(* Two rows of the origin year, one per income group. *)
BaseRows == <<Row(ORIGIN, 98, MAIOR, 3000, 100, 5), Row(ORIGIN, 99, MENOR, 3000, 100, 4)>>

NoPropId == [t |-> "int", v |-> 0, s |-> <<>>]
PropIds == {[t |-> "int", v |-> 2300101, s |-> <<>>],
            [t |-> "int", v |-> 23002, s |-> <<>>],
            [t |-> "str", v |-> 0, s |-> <<"2", "3", "0", "0", "2", "0", "5">>]}

Feat(hasProps, hasPropId, propId) ==
    [hasProps |-> hasProps, hasPropId |-> hasPropId, propId |-> propId,
     hasId |-> FALSE, id |-> <<>>]

FeatureKinds == {Feat(TRUE, TRUE, p) : p \in PropIds}
                  \cup {Feat(TRUE, FALSE, NoPropId), Feat(FALSE, FALSE, NoPropId)}

GjMissing == [kind |-> "missing", hasFeatures |-> FALSE, features |-> <<>>]
GjMalformed == [kind |-> "malformed", hasFeatures |-> FALSE, features |-> <<>>]
GjNoFeatures == [kind |-> "json", hasFeatures |-> FALSE, features |-> <<>>]
Gj(features) == [kind |-> "json", hasFeatures |-> TRUE, features |-> features]

GjFiles == {GjMissing, GjMalformed, GjNoFeatures}
             \cup {Gj(fs) : fs \in SeqsUpTo(FeatureKinds, MaxFeatures)}

GoodGj == Gj(<<Feat(TRUE, TRUE, [t |-> "int", v |-> 2300101, s |-> <<>>])>>)

(* Tables for the loaders: a complete one, and one per missing column. *)
LoadRows == BaseRows \o <<Row(YEAR_A, 1, MAIOR, 3000, 1000, 5),
                           Row(YEAR_B, 1, MAIOR, 4500, 1200, 6),
                           Row(YEAR_B, 2, MENOR, 6000, 900, 4)>>

CsvLoadFiles == {CsvMissing, CsvMalformed, Csv(Columns, LoadRows)}
                  \cup {Csv(Columns \ {c}, LoadRows) : c \in Columns}

(* Tables for the KPIs: rows of two years with coverages around the target. *)
KpiRowKinds == [ano : {YEAR_A, YEAR_B}, cov : {4000, 5000, 6000}]

KpiTables ==
    {Csv(Columns, BaseRows \o [i \in 1..Len(ks) |->
            Row(ks[i].ano, i, MAIOR, ks[i].cov, 100, 5)]) :
        ks \in SeqsUpTo(KpiRowKinds, MaxRows)}

(* Tables for the event study: rows of the origin year and of a later one. *)
EventRowKinds == [ano : {ORIGIN, YEAR_B}, grupo : {MAIOR, MENOR}, emp : {1, 3}]

EventTables ==
    {Csv(Columns, [i \in 1..Len(ks) |->
            Row(ks[i].ano, i, ks[i].grupo, 3000, 100, ks[i].emp)]) :
        ks \in SeqsUpTo(EventRowKinds, MaxRows)}

(* Tables for the year-pair join: each municipality has a row in neither,
   one or both of the two years; the rows come in either order. *)
Presence == {"none", "A", "B", "AB"}

PresenceRows(i, p) ==
    (IF p \in {"A", "AB"} THEN <<Row(YEAR_A, i, MAIOR, 3000, 100, 5)>> ELSE <<>>)
      \o (IF p \in {"B", "AB"} THEN <<Row(YEAR_B, i, MAIOR, 4500, 120, 5)>> ELSE <<>>)

RECURSIVE JoinRows(_, _)
JoinRows(ps, n) ==
    IF n = 0 THEN <<>> ELSE JoinRows(ps, n - 1) \o PresenceRows(n, ps[n])

Reverse(s) == [i \in 1..Len(s) |-> s[Len(s) + 1 - i]]

JoinTables ==
    {Csv(Columns, BaseRows \o JoinRows(ps, Len(ps))) : ps \in SeqsUpTo(Presence, MaxJoinMuni)}
      \cup {Csv(Columns, BaseRows \o Reverse(JoinRows(ps, Len(ps)))) :
              ps \in SeqsUpTo(Presence, MaxJoinMuni)}

(* Tables for the growth views: every municipality has both years, with a
   pair (count in 2007, count in 2019). *)
PairRows(i, cov, pair) ==
    <<Row(YEAR_A, i, MAIOR, 3000, pair[1], 5), Row(YEAR_B, i, MAIOR, cov, pair[2], 5)>>

RECURSIVE GrowthRows(_, _)
GrowthRows(ks, n) ==
    IF n = 0 THEN <<>>
    ELSE GrowthRows(ks, n - 1) \o PairRows(n, ks[n].cov, ks[n].pair)

TopRowKinds == [cov : {4500}, pair : {<<0, 0>>, <<0, 2>>, <<2, 2>>, <<2, 3>>}]

TopTables ==
    {Csv(Columns, BaseRows \o GrowthRows(ks, Len(ks))) :
        ks \in SeqsUpTo(TopRowKinds, MaxTopMuni)}

TableRowKinds == [cov : {4500, 4996, 5000},
                  pair : {<<0, 0>>, <<0, 2>>, <<2, 2>>, <<2, 3>>}]

TableTables ==
    {Csv(Columns, BaseRows \o GrowthRows(ks, Len(ks))) :
        ks \in SeqsUpTo(TableRowKinds, MaxTableMuni)}

----------------------------------------------------------------------------
(* The render pass of main(). *)
NoKpis == [ok |-> FALSE, avg |-> NaN, below |-> 0]
NoMapFig == [ok |-> FALSE, locations |-> <<>>, z |-> <<>>, text |-> <<>>]
NoEventFig == [ok |-> FALSE, x |-> <<>>, y |-> <<>>]
NoScatterFig == [ok |-> FALSE, temp |-> <<>>]
NoTop5Fig == [ok |-> FALSE, temp |-> <<>>, top5 |-> <<>>]
NoTableDf == [ok |-> FALSE, data |-> <<>>]

Start ==
    /\ pc = "load_data"
    /\ df = NoneDf
    /\ geojson = NoneGeo
    /\ errors = {}
    /\ invoked = {}
    /\ kpis = NoKpis
    /\ mapFig = NoMapFig
    /\ eventFig = NoEventFig
    /\ scatterFig = NoScatterFig
    /\ top5Fig = NoTop5Fig
    /\ tableDf = NoTableDf

Init == csvFile \in CsvLoadFiles /\ gjFile \in GjFiles /\ Start
InitKpi == csvFile \in KpiTables /\ gjFile = GoodGj /\ Start
InitEvent == csvFile \in EventTables /\ gjFile = GoodGj /\ Start
InitJoin == csvFile \in JoinTables /\ gjFile = GoodGj /\ Start
InitTop == csvFile \in TopTables /\ gjFile = GoodGj /\ Start
InitTable == csvFile \in TableTables /\ gjFile = GoodGj /\ Start

(* df = load_data() *)
LoadData ==
    /\ pc = "load_data"
    /\ df' = load_data(csvFile).ret
    /\ errors' = errors \cup load_data(csvFile).err
    /\ pc' = "load_geojson"
    /\ UNCHANGED <<csvFile, gjFile, geojson, invoked,
                   kpis, mapFig, eventFig, scatterFig, top5Fig, tableDf>>

(* geojson = load_geojson() *)
LoadGeojson ==
    /\ pc = "load_geojson"
    /\ geojson' = load_geojson(gjFile).ret
    /\ errors' = errors \cup load_geojson(gjFile).err
    /\ pc' = "check"
    /\ UNCHANGED <<csvFile, gjFile, df, invoked,
                   kpis, mapFig, eventFig, scatterFig, top5Fig, tableDf>>

CheckLoadedEither ==
    /\ pc = "check"
    /\ pc' = IF df.kind # "None" \/ geojson.kind # "None" THEN "process_kpis" ELSE "done"
    /\ UNCHANGED <<csvFile, gjFile, df, geojson, errors, invoked,
                   kpis, mapFig, eventFig, scatterFig, top5Fig, tableDf>>

(* if df is not None and geojson is not None *)
CheckLoaded ==
    /\ pc = "check"
    /\ pc' = IF df.kind # "None" /\ geojson.kind # "None" THEN "process_kpis" ELSE "done"
    /\ UNCHANGED <<csvFile, gjFile, df, geojson, errors, invoked,
                   kpis, mapFig, eventFig, scatterFig, top5Fig, tableDf>>

ProcessKpis ==
    /\ pc = "process_kpis"
    /\ kpis' = process_kpis(df)
    /\ invoked' = invoked \cup {"process_kpis"}
    /\ pc' = IF kpis'.ok THEN "get_map_fig" ELSE "raised"
    /\ UNCHANGED <<csvFile, gjFile, df, geojson, errors,
                   mapFig, eventFig, scatterFig, top5Fig, tableDf>>

GetMapFig ==
    /\ pc = "get_map_fig"
    /\ mapFig' = get_map_fig(df, geojson)
    /\ invoked' = invoked \cup {"get_map_fig"}
    /\ pc' = IF mapFig'.ok THEN "get_event_study_fig" ELSE "raised"
    /\ UNCHANGED <<csvFile, gjFile, df, geojson, errors,
                   kpis, eventFig, scatterFig, top5Fig, tableDf>>

GetEventStudyFig ==
    /\ pc = "get_event_study_fig"
    /\ eventFig' = get_event_study_fig(df)
    /\ invoked' = invoked \cup {"get_event_study_fig"}
    /\ pc' = IF eventFig'.ok THEN "get_scatter_fig" ELSE "raised"
    /\ UNCHANGED <<csvFile, gjFile, df, geojson, errors,
                   kpis, mapFig, scatterFig, top5Fig, tableDf>>

GetScatterFig ==
    /\ pc = "get_scatter_fig"
    /\ scatterFig' = get_scatter_fig(df)
    /\ invoked' = invoked \cup {"get_scatter_fig"}
    /\ pc' = IF scatterFig'.ok THEN "get_top5_fig" ELSE "raised"
    /\ UNCHANGED <<csvFile, gjFile, df, geojson, errors,
                   kpis, mapFig, eventFig, top5Fig, tableDf>>

GetTop5Fig ==
    /\ pc = "get_top5_fig"
    /\ top5Fig' = get_top5_fig(df)
    /\ invoked' = invoked \cup {"get_top5_fig"}
    /\ pc' = IF top5Fig'.ok THEN "get_table_df" ELSE "raised"
    /\ UNCHANGED <<csvFile, gjFile, df, geojson, errors,
                   kpis, mapFig, eventFig, scatterFig, tableDf>>

GetTableDf ==
    /\ pc = "get_table_df"
    /\ tableDf' = get_table_df(df)
    /\ invoked' = invoked \cup {"get_table_df"}
    /\ pc' = IF tableDf'.ok THEN "done" ELSE "raised"
    /\ UNCHANGED <<csvFile, gjFile, df, geojson, errors,
                   kpis, mapFig, eventFig, scatterFig, top5Fig>>

Next ==
    \/ LoadData
    \/ LoadGeojson
    \/ CheckLoaded
    \/ ProcessKpis
    \/ GetMapFig
    \/ GetEventStudyFig
    \/ GetScatterFig
    \/ GetTop5Fig
    \/ GetTableDf

Spec == Init /\ [][Next]_vars
SpecKpi == InitKpi /\ [][Next]_vars
SpecEvent == InitEvent /\ [][Next]_vars
SpecJoin == InitJoin /\ [][Next]_vars
SpecTop == InitTop /\ [][Next]_vars
SpecTable == InitTable /\ [][Next]_vars

----------------------------------------------------------------------------
(* Properties.  They are stated over the input file csvFile / gjFile and the
   value each function returned. *)

FileRows == {csvFile.rows[i] : i \in 1..Len(csvFile.rows)}
IdsOfYear(year) == {r.id_municipio_6 : r \in {q \in FileRows : q.ano = year}}
BothYears == IdsOfYear(2007) \cap IdsOfYear(2019)
FileRow(year, id) == CHOOSE r \in FileRows : r.ano = year /\ r.id_municipio_6 = id
SeqSet(s) == {s[i] : i \in 1..Len(s)}
Min(a, b) == IF a < b THEN a ELSE b

(* C1: each per-municipality view is computed over exactly the identifiers
   that have a row of 2007 and a row of 2019, each once. *)
C1_JoinIsIntersection ==
    /\ ("get_map_fig" \in invoked /\ mapFig.ok) =>
          /\ SeqSet(mapFig.locations) = {Str(id) : id \in BothYears}
          /\ Len(mapFig.locations) = Cardinality(BothYears)
    /\ ("get_scatter_fig" \in invoked /\ scatterFig.ok) =>
          /\ {r.id : r \in SeqSet(scatterFig.temp)} = BothYears
          /\ Len(scatterFig.temp) = Cardinality(BothYears)
    /\ ("get_top5_fig" \in invoked /\ top5Fig.ok) =>
          /\ {r.id : r \in SeqSet(top5Fig.temp)} = BothYears
          /\ Len(top5Fig.temp) = Cardinality(BothYears)
    /\ ("get_table_df" \in invoked /\ tableDf.ok) =>
          /\ {r.Municipio : r \in SeqSet(tableDf.data)}
                = {FileRow(2019, id).nome_municipio : id \in BothYears}
          /\ Len(tableDf.data) = Cardinality(BothYears)

C1_Witness ==
    /\ pc = "done"
    /\ Cardinality(BothYears) = 1
    /\ IdsOfYear(2007) \ IdsOfYear(2019) # {}
    /\ IdsOfYear(2019) \ IdsOfYear(2007) # {}
    /\ Len(tableDf.data) = 1
    /\ Len(mapFig.locations) = 1

(* C4: the KPI mean is the mean of the coverage over the rows of 2019 and the
   count is the number of those rows strictly below 50; with no row of 2019
   the mean is NaN and the count 0. *)
RECURSIVE SumCov(_)
SumCov(R) == IF R = {} THEN 0
             ELSE LET r == CHOOSE x \in R : TRUE
                  IN  r.tae_creche_capped + SumCov(R \ {r})

Rows2019 == {r \in FileRows : r.ano = 2019}

C4_KpiMeanAndCount ==
    ("process_kpis" \in invoked) =>
        /\ kpis.ok
        /\ kpis.below = Cardinality({r \in Rows2019 : r.tae_creche_capped < 5000})
        /\ Rows2019 = {} => (IsNaN(kpis.avg) /\ kpis.below = 0)
        /\ Rows2019 # {} =>
              /\ kpis.avg.k = "num"
              /\ kpis.avg.n * Cardinality(Rows2019) * 100 = SumCov(Rows2019) * kpis.avg.d

C4_Witness ==
    /\ pc = "done"
    /\ \E r \in Rows2019 : r.tae_creche_capped = 5000
    /\ \E r \in Rows2019 : r.tae_creche_capped = 4000
    /\ \E r \in FileRows : r.ano = 2007 /\ r.tae_creche_capped = 4000
    /\ kpis.below = 1
    /\ kpis.avg.k = "num"

(* C5: when a loader yields None no processing function is invoked and the
   pass ends without raising; a function is invoked only after both loaders
   returned a value. *)
C5_NoEngineWithoutData ==
    /\ (pc \notin {"load_data", "load_geojson"}
          /\ (df.kind = "None" \/ geojson.kind = "None")) =>
            /\ invoked = {}
            /\ pc \in {"check", "done"}
            /\ errors # {}
    /\ (csvFile.kind \in {"missing", "malformed"}
          \/ gjFile.kind \in {"missing", "malformed"}) =>
            /\ invoked = {}
            /\ pc # "raised"
    /\ invoked # {} => (df.kind = "DataFrame" /\ geojson.kind = "dict")

C5_Witness ==
    /\ pc = "done"
    /\ df.kind = "DataFrame"
    /\ geojson.kind = "None"
    /\ gjFile.kind = "malformed"
    /\ invoked = {}

(* C6: a table that parses but lacks a required column ends in a load error
   and is withheld, so no processing function runs on it. *)
C6_MissingColumnIsLoadError ==
    (csvFile.kind = "csv" /\ csvFile.cols # Columns) =>
        /\ invoked = {}
        /\ pc # "raised"
        /\ (pc = "done" /\ geojson.kind = "dict") =>
              (df.kind = "None" /\ "csv_error" \in errors)

(* C9: after load_geojson succeeds, a feature whose properties carry the
   identifier has as join key the first 6 characters of its string form; a
   feature whose properties lack it has no join key and joins no row; a
   feature without the identifier does not make the load fail. *)
NumDigits(v) == CHOOSE l \in 1..12 : v < 10 ^ l /\ (l = 1 \/ v >= 10 ^ (l - 1))
CharAt(p, k) ==
    IF p.t = "int"
    THEN DigitChar[((p.v \div (10 ^ (NumDigits(p.v) - k))) % 10) + 1]
    ELSE p.s[k]
StrLen(p) == IF p.t = "int" THEN NumDigits(p.v) ELSE Len(p.s)
RowLocations == {Str(r.id_municipio_6) : r \in {q \in FileRows : "id_municipio_6" \in DOMAIN q}}

TableRowOf(id) ==
    CHOOSE r \in SeqSet(tableDf.data) : r.Municipio = FileRow(2019, id).nome_municipio
IsZero(x) == x.k = "num" /\ x.n = 0

(* C7: the 'Meta' label is "Sim" exactly when the 2019 coverage is >= 50 and
   "Nao" exactly when it is < 50. *)
C7_MetaFromCoverage ==
    ("get_table_df" \in invoked /\ tableDf.ok) =>
        \A id \in BothYears :
            /\ TableRowOf(id).Meta = "Sim" <=> FileRow(2019, id).tae_creche_capped >= 5000
            /\ TableRowOf(id).Meta = "Nao" <=> FileRow(2019, id).tae_creche_capped < 5000

(* C8, as claimed: equal counts in 2007 and 2019 give a growth of 0 in the
   vectorised and in the per-row computation, for every count including 0. *)
EqualCountIds == {id \in BothYears :
                    FileRow(2007, id).Total_mulheres = FileRow(2019, id).Total_mulheres}
ScatterRowOf(id) == CHOOSE r \in SeqSet(scatterFig.temp) : r.id = id
Top5TempRowOf(id) == CHOOSE r \in SeqSet(top5Fig.temp) : r.id = id

C8_EqualCountsGiveZero ==
    /\ ("get_scatter_fig" \in invoked /\ scatterFig.ok) =>
          \A id \in EqualCountIds : IsZero(ScatterRowOf(id).y)
    /\ ("get_top5_fig" \in invoked /\ top5Fig.ok) =>
          \A id \in EqualCountIds : IsZero(Top5TempRowOf(id).growth)
    /\ ("get_table_df" \in invoked /\ tableDf.ok) =>
          \A id \in EqualCountIds : IsZero(TableRowOf(id).Crescimento)

(* C8, amended: equal counts other than 0 give a growth of 0 in every view;
   equal counts of 0 give NaN in every view. *)
C8_EqualNonzeroCountsGiveZero ==
    /\ ("get_scatter_fig" \in invoked /\ scatterFig.ok) =>
          \A id \in EqualCountIds :
              IF FileRow(2007, id).Total_mulheres # 0
              THEN IsZero(ScatterRowOf(id).y) ELSE IsNaN(ScatterRowOf(id).y)
    /\ ("get_top5_fig" \in invoked /\ top5Fig.ok) =>
          \A id \in EqualCountIds :
              IF FileRow(2007, id).Total_mulheres # 0
              THEN IsZero(Top5TempRowOf(id).growth) ELSE IsNaN(Top5TempRowOf(id).growth)
    /\ ("get_table_df" \in invoked /\ tableDf.ok) =>
          \A id \in EqualCountIds :
              IF FileRow(2007, id).Total_mulheres # 0
              THEN IsZero(TableRowOf(id).Crescimento) ELSE IsNaN(TableRowOf(id).Crescimento)

C8_Witness ==
    /\ pc = "done"
    /\ \E id \in EqualCountIds :
          /\ FileRow(2007, id).Total_mulheres = 2
          /\ IsZero(TableRowOf(id).Crescimento)
          /\ IsZero(Top5TempRowOf(id).growth)
    /\ \E id \in EqualCountIds :
          /\ FileRow(2007, id).Total_mulheres = 0
          /\ IsNaN(TableRowOf(id).Crescimento)

(* C10: a municipality whose 2007 count is 0 has an undefined growth (NaN) in
   every view: the top-5 selection ranks no value for it and the table shows
   no numeric growth for it. *)
ZeroBaselineIds == {id \in BothYears : FileRow(2007, id).Total_mulheres = 0}

C10_ZeroBaselineUndefined ==
    /\ ("get_top5_fig" \in invoked /\ top5Fig.ok) =>
          \A id \in ZeroBaselineIds :
              /\ IsNaN(Top5TempRowOf(id).growth)
              /\ \A r \in SeqSet(top5Fig.top5) : r.id = id => IsNaN(r.growth)
    /\ ("get_table_df" \in invoked /\ tableDf.ok) =>
          \A id \in ZeroBaselineIds : IsNaN(TableRowOf(id).Crescimento)

(* The rows of temp that nlargest left out. *)
Selected == SeqSet(top5Fig.top5)
Unselected == {r \in SeqSet(top5Fig.temp) : r.id \notin {q.id : q \in Selected}}

(* C2, as claimed: the selection has min(5, size of the intersection) rows,
   is ascending by growth, and every selected growth is >= every growth left
   out, municipalities with a 2007 count of 0 included. *)
C2_Top5Ordered ==
    ("get_top5_fig" \in invoked /\ top5Fig.ok) =>
        /\ Len(top5Fig.top5) = Min(5, Cardinality(BothYears))
        /\ \A i, j \in 1..Len(top5Fig.top5) :
              i < j => FLe(top5Fig.top5[i].growth, top5Fig.top5[j].growth)
        /\ \A r \in Selected : \A u \in Unselected : FGe(r.growth, u.growth)

(* C2, amended: the selection has min(5, size of the intersection) rows, each
   a row of the intersection with its own growth; its rows that are not NaN
   come first, ascending, and its NaN rows last; every selected growth that
   is not NaN is >= every growth left out that is not NaN; a NaN row is
   selected only when no row that is not NaN is left out. *)
C2_Top5OrderedAmongDefined ==
    ("get_top5_fig" \in invoked /\ top5Fig.ok) =>
        /\ Len(top5Fig.top5) = Min(5, Cardinality(BothYears))
        /\ Cardinality({r.id : r \in Selected}) = Len(top5Fig.top5)
        /\ \A r \in Selected :
              /\ r.id \in BothYears
              /\ r.growth = Top5TempRowOf(r.id).growth
              /\ IF FileRow(2007, r.id).Total_mulheres = 0
                 THEN (IF FileRow(2019, r.id).Total_mulheres = 0
                       THEN IsNaN(r.growth) ELSE r.growth.k = "inf")
                 ELSE /\ r.growth.k = "num"
                      /\ r.growth.n * FileRow(2007, r.id).Total_mulheres
                           = (FileRow(2019, r.id).Total_mulheres
                                - FileRow(2007, r.id).Total_mulheres) * 100 * r.growth.d
        /\ \A i, j \in 1..Len(top5Fig.top5) :
              i < j =>
                 \/ IsNaN(top5Fig.top5[j].growth)
                 \/ FLe(top5Fig.top5[i].growth, top5Fig.top5[j].growth)
        /\ \A r \in Selected : \A u \in Unselected :
              (~IsNaN(r.growth) /\ ~IsNaN(u.growth)) => FGe(r.growth, u.growth)
        /\ (\E r \in Selected : IsNaN(r.growth)) =>
              \A u \in Unselected : IsNaN(u.growth)

C2_Witness ==
    /\ pc = "done"
    /\ Len(top5Fig.temp) = 6
    /\ Len(top5Fig.top5) = 5
    /\ top5Fig.top5[1].growth.k = "num"
    /\ top5Fig.top5[4].growth.k = "inf"
    /\ IsNaN(top5Fig.top5[5].growth)
    /\ \E u \in Unselected : IsNaN(u.growth)

(* The position of the origin year in the event-study series. *)
OriginPos == CHOOSE i \in 1..Len(eventFig.x) : eventFig.x[i] = 2012
GroupsIn2012 == {r.grupo_renda : r \in {q \in FileRows : q.ano = 2012}}

(* C3, as claimed: whenever the table has a row of 2012 the normalized gap at
   2012 is exactly 0, also when only one income group has rows in 2012. *)
C3_OriginIsZero ==
    ("get_event_study_fig" \in invoked /\ eventFig.ok /\ GroupsIn2012 # {}) =>
        IsZero(eventFig.y[OriginPos])

(* C3, amended: when both income groups have a row of 2012 the normalized gap
   at 2012 is exactly 0; when only one of them has (the other having rows in
   other years) the whole series, the value at 2012 included, is NaN. *)
C3_OriginIsZeroWithBothGroups ==
    /\ ("get_event_study_fig" \in invoked /\ Cardinality(GroupsIn2012) = 2) =>
          /\ eventFig.ok
          /\ IsZero(eventFig.y[OriginPos])
    /\ ("get_event_study_fig" \in invoked /\ eventFig.ok /\ Cardinality(GroupsIn2012) = 1) =>
          \A i \in 1..Len(eventFig.y) : IsNaN(eventFig.y[i])

C3_Witness ==
    /\ pc = "done"
    /\ Cardinality(GroupsIn2012) = 2
    /\ \E r, q \in FileRows :
          /\ r.ano = 2012 /\ q.ano = 2012
          /\ r.grupo_renda # q.grupo_renda
          /\ r.log_emp_mulher # q.log_emp_mulher
    /\ Len(eventFig.x) = 2
    /\ IsZero(eventFig.y[OriginPos])

====
